---- MODULE Spec2Model ----
(***************************************************************************)
(* pastryjs: cookie string construction (server) and the helpers that read *)
(* and write the ambient document.cookie jar (web).                        *)
(*                                                                         *)
(* A JavaScript string is a sequence of one-character strings, so that     *)
(* split, trim, startsWith, replace, includes and encodeURIComponent are   *)
(* computed character by character as the runtime computes them.           *)
(***************************************************************************)
EXTENDS Integers, Sequences, FiniteSets, TLC

VARIABLES env, cookie, args, op

vars == <<env, cookie, args, op>>

(***************************************************************************)
(* Bounds of the model.                                                    *)
(***************************************************************************)
\* largest number of `;`-separated segments of a jar snapshot drawn as input
MaxSegs == 3
\* largest Max-Age (seconds) offered to set/server
MaxMaxAge == 60

(***************************************************************************)
(* String primitives of the runtime.                                       *)
(***************************************************************************)
Min(S) == CHOOSE i \in S : \A j \in S : i <= j
Max(S) == CHOOSE i \in S : \A j \in S : j <= i

\* smallest i >= from with s[i..] starting with p, or 0 when there is none
IndexFrom(s, p, from) ==
    LET hits == {i \in from..(Len(s) - Len(p) + 1) : SubSeq(s, i, i + Len(p) - 1) = p}
    IN  IF hits = {} THEN 0 ELSE Min(hits)

\* String.prototype.includes
Includes(s, p) == IndexFrom(s, p, 1) # 0

\* String.prototype.startsWith
StartsWith(s, p) == Len(p) <= Len(s) /\ SubSeq(s, 1, Len(p)) = p

\* String.prototype.replace(pattern: string, ""): the first occurrence only
ReplaceFirst(s, p) ==
    LET i == IndexFrom(s, p, 1)
    IN  IF i = 0 THEN s
        ELSE SubSeq(s, 1, i - 1) \o SubSeq(s, i + Len(p), Len(s))

\* String.prototype.trim: the text from the first to the last non-blank character
Trim(s) ==
    LET solid == {i \in 1..Len(s) : s[i] # " "}
    IN  IF solid = {} THEN <<>> ELSE SubSeq(s, Min(solid), Max(solid))

\* String.prototype.split(sep) for a one-character separator and no limit:
\* every occurrence splits, and "" splits into [""]
Split(s, sep) ==
    LET at     == {i \in 1..Len(s) : s[i] = sep}
        n      == Cardinality(at)
        nth(k) == CHOOSE i \in at : Cardinality({j \in at : j < i}) = k - 1
    IN  [k \in 1..(n + 1) |->
            SubSeq(s, IF k = 1 THEN 1 ELSE nth(k - 1) + 1,
                      IF k = n + 1 THEN Len(s) ELSE nth(k) - 1)]

RECURSIVE Join(_, _)
\* Array.prototype.join
Join(parts, sep) ==
    IF parts = <<>> THEN <<>>
    ELSE IF Len(parts) = 1 THEN parts[1]
    ELSE parts[1] \o sep \o Join(Tail(parts), sep)

DigitChars == <<"0", "1", "2", "3", "4", "5", "6", "7", "8", "9">>

RECURSIVE NatToStr(_)
NatToStr(n) ==
    IF n < 10 THEN <<DigitChars[n + 1]>>
    ELSE NatToStr(n \div 10) \o <<DigitChars[(n % 10) + 1]>>

\* Number to string conversion of a template literal, for integers
IntToStr(n) == IF n < 0 THEN <<"-">> \o NatToStr(0 - n) ELSE NatToStr(n)

\* two-digit zero padded field of an HTTP-date
Pad2(n) == IF n < 10 THEN <<"0">> \o NatToStr(n) ELSE NatToStr(n)

\* characters encodeURIComponent leaves alone (those of the model's alphabet)
Unreserved ==
    {"a", "b", "c", "d", "x", "y", "0", "1", "2", "3", "-", "_", ".", "!", "~", "*", "'", "(", ")"}

\* the percent escape of one reserved ASCII character
PercentEscape(c) ==
    CASE c = "=" -> <<"%", "3", "D">>
      [] c = ";" -> <<"%", "3", "B">>
      [] c = " " -> <<"%", "2", "0">>
      [] c = "%" -> <<"%", "2", "5">>
      [] c = "/" -> <<"%", "2", "F">>
      [] c = "," -> <<"%", "2", "C">>
      [] OTHER   -> <<"%", "3", "F">>

RECURSIVE encodeURIComponent(_)
encodeURIComponent(s) ==
    IF s = <<>> THEN <<>>
    ELSE (IF Head(s) \in Unreserved THEN <<Head(s)>> ELSE PercentEscape(Head(s)))
         \o encodeURIComponent(Tail(s))

(***************************************************************************)
(* Date.prototype.toUTCString.  A Date is represented by its time value in *)
(* whole seconds since the epoch (the rendering has no finer resolution).  *)
(***************************************************************************)
DayNames ==
    << <<"S","u","n">>, <<"M","o","n">>, <<"T","u","e">>, <<"W","e","d">>,
       <<"T","h","u">>, <<"F","r","i">>, <<"S","a","t">> >>

MonthNames ==
    << <<"J","a","n">>, <<"F","e","b">>, <<"M","a","r">>, <<"A","p","r">>,
       <<"M","a","y">>, <<"J","u","n">>, <<"J","u","l">>, <<"A","u","g">>,
       <<"S","e","p">>, <<"O","c","t">>, <<"N","o","v">>, <<"D","e","c">> >>

\* proleptic Gregorian year, month and day of a day number counted from the epoch
CivilFromDays(days) ==
    LET z   == days + 719468
        era == z \div 146097
        doe == z - era * 146097
        yoe == (doe - doe \div 1460 + doe \div 36524 - doe \div 146096) \div 365
        doy == doe - (365 * yoe + yoe \div 4 - yoe \div 100)
        mp  == (5 * doy + 2) \div 153
        d   == doy - (153 * mp + 2) \div 5 + 1
        m   == IF mp < 10 THEN mp + 3 ELSE mp - 9
        y   == yoe + era * 400 + (IF m <= 2 THEN 1 ELSE 0)
    IN  [year |-> y, month |-> m, day |-> d]

toUTCString(t) ==
    LET days == t \div 86400
        secs == t % 86400
        c    == CivilFromDays(days)
    IN  DayNames[((days + 4) % 7) + 1] \o <<",", " ">> \o Pad2(c.day) \o <<" ">>
        \o MonthNames[c.month] \o <<" ">> \o NatToStr(c.year) \o <<" ">>
        \o Pad2(secs \div 3600) \o <<":">> \o Pad2((secs % 3600) \div 60)
        \o <<":">> \o Pad2(secs % 60) \o <<" ", "G", "M", "T">>

(***************************************************************************)
(* Option objects.  Each optional field is a pair: has (the property is    *)
(* set) and v (its value).  given is FALSE when no options object is       *)
(* passed at all.                                                          *)
(***************************************************************************)
Unset(v) == [has |-> FALSE, v |-> v]
Some(v)  == [has |-> TRUE, v |-> v]

\* truthiness of an optional string, number, boolean and object
TruthyStr(f)  == f.has /\ f.v # <<>>
TruthyNum(f)  == f.has /\ f.v # 0
TruthyBool(f) == f.has /\ f.v
TruthyObj(f)  == f.has

EmptyOptions ==
    [given |-> TRUE, domain |-> Unset(<<>>), expiry |-> Unset(0), maxAge |-> Unset(0),
     partitioned |-> Unset(FALSE), path |-> Unset(<<>>), sameSite |-> Unset(<<>>),
     secure |-> Unset(FALSE), httpOnly |-> Unset(FALSE)]

NoOptions == [EmptyOptions EXCEPT !.given = FALSE]

\* the attribute names of the wire format
AttrDomain      == <<"D","o","m","a","i","n">>
AttrExpires     == <<"E","x","p","i","r","e","s">>
AttrMaxAge      == <<"M","a","x","-","A","g","e">>
AttrPartitioned == <<"P","a","r","t","i","t","i","o","n","e","d">>
AttrPath        == <<"P","a","t","h">>
AttrSameSite    == <<"S","a","m","e","S","i","t","e">>
AttrSecure      == <<"S","e","c","u","r","e">>
AttrHttpOnly    == <<"H","t","t","p","O","n","l","y">>

Sep == <<";", " ">>
Eq  == <<"=">>

(***************************************************************************)
(* server(key, value, options): the Set-Cookie header value.               *)
(***************************************************************************)
\* a flag emitted whenever its option is set, with the value when it is false
FlagWithValue(name, f) ==
    IF ~f.has THEN <<>>
    ELSE IF f.v THEN Sep \o name
    ELSE Sep \o name \o Eq \o <<"f","a","l","s","e">>

\* server() as it would be with flags tested for presence instead of truth
_serverFlagPresence(key, value, options) ==
    LET base == key \o Eq \o encodeURIComponent(value)
    IN  IF ~options.given THEN base
        ELSE base
          \o (IF TruthyStr(options.domain) THEN Sep \o AttrDomain \o Eq \o options.domain.v ELSE <<>>)
          \o (IF TruthyObj(options.expiry) THEN Sep \o AttrExpires \o Eq \o toUTCString(options.expiry.v) ELSE <<>>)
          \o (IF TruthyNum(options.maxAge) THEN Sep \o AttrMaxAge \o Eq \o IntToStr(options.maxAge.v) ELSE <<>>)
          \o FlagWithValue(AttrPartitioned, options.partitioned)
          \o (IF TruthyStr(options.path) THEN Sep \o AttrPath \o Eq \o options.path.v ELSE <<>>)
          \o (IF TruthyStr(options.sameSite) THEN Sep \o AttrSameSite \o Eq \o options.sameSite.v ELSE <<>>)
          \o FlagWithValue(AttrSecure, options.secure)
          \o FlagWithValue(AttrHttpOnly, options.httpOnly)

_server(key, value, options) ==
    LET base == key \o Eq \o encodeURIComponent(value)
    IN  IF ~options.given THEN base
        ELSE base
          \o (IF TruthyStr(options.domain) THEN Sep \o AttrDomain \o Eq \o options.domain.v ELSE <<>>)
          \o (IF TruthyObj(options.expiry) THEN Sep \o AttrExpires \o Eq \o toUTCString(options.expiry.v) ELSE <<>>)
          \o (IF TruthyNum(options.maxAge) THEN Sep \o AttrMaxAge \o Eq \o IntToStr(options.maxAge.v) ELSE <<>>)
          \o (IF TruthyBool(options.partitioned) THEN Sep \o AttrPartitioned ELSE <<>>)
          \o (IF TruthyStr(options.path) THEN Sep \o AttrPath \o Eq \o options.path.v ELSE <<>>)
          \o (IF TruthyStr(options.sameSite) THEN Sep \o AttrSameSite \o Eq \o options.sameSite.v ELSE <<>>)
          \o (IF TruthyBool(options.secure) THEN Sep \o AttrSecure ELSE <<>>)
          \o (IF TruthyBool(options.httpOnly) THEN Sep \o AttrHttpOnly ELSE <<>>)

(***************************************************************************)
(* web().set, first half: the string assigned to document.cookie.          *)
(***************************************************************************)
_setCookieValue(key, value, options) ==
    LET base == key \o Eq \o encodeURIComponent(value)
    IN  IF ~options.given THEN base
        ELSE base
          \o (IF TruthyStr(options.domain) THEN Sep \o AttrDomain \o Eq \o options.domain.v ELSE <<>>)
          \o (IF TruthyObj(options.expiry) THEN Sep \o AttrExpires \o Eq \o toUTCString(options.expiry.v) ELSE <<>>)
          \o (IF TruthyNum(options.maxAge) THEN Sep \o AttrMaxAge \o Eq \o IntToStr(options.maxAge.v) ELSE <<>>)
          \o (IF TruthyBool(options.partitioned) THEN Sep \o AttrPartitioned ELSE <<>>)
          \o (IF TruthyStr(options.path) THEN Sep \o AttrPath \o Eq \o options.path.v ELSE <<>>)
          \o (IF TruthyStr(options.sameSite) THEN Sep \o AttrSameSite \o Eq \o options.sameSite.v ELSE <<>>)
          \o (IF TruthyBool(options.secure) THEN Sep \o AttrSecure ELSE <<>>)
          \o (IF TruthyBool(options.httpOnly) THEN Sep \o AttrHttpOnly ELSE <<>>)

(***************************************************************************)
(* The ambient cookie jar: the `document` global and its cookie property.  *)
(* env says what the identifier `document` evaluates to: an object with a  *)
(* cookie jar ("document"), a declared but falsy value ("falsy"), or       *)
(* nothing at all, as on a server runtime ("undeclared").                  *)
(* cookie is the string the getter of document.cookie returns.             *)
(***************************************************************************)
Envs == {"document", "falsy", "undeclared"}

\* the jar's clock (seconds since the epoch) used to judge Expires
Now == 1762138800

\* the expiry dates the jar can be handed: one in the past, one in the future
DateSet == {951782400, Now + 86400}

RECURSIVE ParseNat(_, _)
ParseNat(s, acc) ==
    IF s = <<>> THEN acc
    ELSE LET d == CHOOSE i \in 1..10 : DigitChars[i] = Head(s)
         IN  ParseNat(Tail(s), 10 * acc + (d - 1))

\* the integer a Max-Age attribute value denotes
ParseInt(s) ==
    IF s # <<>> /\ Head(s) = "-" THEN 0 - ParseNat(Tail(s), 0) ELSE ParseNat(s, 0)

\* name and value of one `name=value` segment: split at the first "="
PairOf(seg) ==
    LET t == Trim(seg)
        i == IndexFrom(t, Eq, 1)
    IN  IF i = 0 THEN [name |-> <<>>, value |-> t]
        ELSE [name |-> Trim(SubSeq(t, 1, i - 1)), value |-> Trim(SubSeq(t, i + 1, Len(t)))]

\* the cookies of the jar, in the order the getter lists them
JarOf(c) ==
    IF c = <<>> THEN <<>>
    ELSE LET segs == Split(c, ";") IN [i \in 1..Len(segs) |-> PairOf(segs[i])]

\* the getter of document.cookie: `k1=v1; k2=v2; ...`
JarString(jar) == Join([i \in 1..Len(jar) |-> jar[i].name \o Eq \o jar[i].value], Sep)

\* does the written cookie string carry attribute `name`, and its value
HasAttr(segs, name) ==
    \E i \in 2..Len(segs) : PairOf(segs[i]).name = name

AttrValue(segs, name) ==
    PairOf(segs[CHOOSE i \in 2..Len(segs) : PairOf(segs[i]).name = name]).value

\* a written cookie that is already expired removes the cookie of that name:
\* Max-Age <= 0, or (without Max-Age) an Expires date that is not in the future
IsExpired(segs) ==
    IF HasAttr(segs, AttrMaxAge) THEN ParseInt(AttrValue(segs, AttrMaxAge)) <= 0
    ELSE IF HasAttr(segs, AttrExpires)
         THEN \E t \in DateSet : toUTCString(t) = AttrValue(segs, AttrExpires) /\ t <= Now
         ELSE FALSE

RECURSIVE Without(_, _)
Without(jar, name) ==
    IF jar = <<>> THEN <<>>
    ELSE IF Head(jar).name = name THEN Without(Tail(jar), name)
    ELSE <<Head(jar)>> \o Without(Tail(jar), name)

\* the setter of document.cookie: one cookie is added, overwritten in place or
\* removed; accept = FALSE is the environment silently rejecting the write
DocumentCookieSet(c, written, accept) ==
    IF ~accept THEN c
    ELSE LET segs == Split(written, ";")
             pair == PairOf(segs[1])
             jar  == JarOf(c)
         IN  IF IsExpired(segs) THEN JarString(Without(jar, pair.name))
             ELSE IF \E i \in 1..Len(jar) : jar[i].name = pair.name
                  THEN JarString([i \in 1..Len(jar) |->
                                    IF jar[i].name = pair.name THEN pair ELSE jar[i]])
                  ELSE JarString(Append(jar, pair))

(***************************************************************************)
(* Results of a call.                                                      *)
(***************************************************************************)
Null      == [kind |-> "null"]
Bool(b)   == [kind |-> "boolean", b |-> b]
Str(s)    == [kind |-> "string", s |-> s]
List(l)   == [kind |-> "array", l |-> l]
Throw(e)  == [kind |-> "throw", error |-> e]

\* evaluating the identifier `document` when no such global is declared
ReferenceError == Throw("ReferenceError")
\* calling trim() on undefined
TypeError == Throw("TypeError")

\* !x for the string | null a get returns
Not(r) == r = Null \/ (r.kind = "string" /\ r.s = <<>>)

(***************************************************************************)
(* web(): set, get, delete, update, keys, values.                          *)
(* _set, _delete and _update yield the result and the jar string after.    *)
(***************************************************************************)
NoWrite(r, c) == [ret |-> r, cookie |-> c, wrote |-> FALSE, written |-> <<>>]

_set(c, key, value, options, accept) ==
    LET cookieValue == _setCookieValue(key, value, options)
    IN  IF env = "undeclared" THEN NoWrite(ReferenceError, c)
        ELSE IF env = "falsy" THEN NoWrite(Bool(FALSE), c)
        ELSE LET after == DocumentCookieSet(c, cookieValue, accept)
             IN  [ret     |-> Bool(Includes(after, key \o Eq \o encodeURIComponent(value))),
                  cookie  |-> after,
                  wrote   |-> TRUE,
                  written |-> cookieValue]

RECURSIVE GetScan(_, _, _, _)
\* cookies.some(...) with a callback that returns nothing: every segment is
\* visited and each match overwrites returnValue
GetScan(cookies, key, i, returnValue) ==
    IF i > Len(cookies) THEN returnValue
    ELSE IF StartsWith(Trim(cookies[i]), key \o Eq)
         THEN GetScan(cookies, key, i + 1, Str(ReplaceFirst(cookies[i], key \o Eq)))
         ELSE GetScan(cookies, key, i + 1, returnValue)

_get(c, key) ==
    IF env = "undeclared" THEN ReferenceError
    ELSE IF env = "falsy" THEN Null
    ELSE GetScan(Split(c, ";"), key, 1, Null)

\* the options delete passes to set
DeleteOptions ==
    [EmptyOptions EXCEPT !.maxAge = Some(0), !.secure = Some(FALSE), !.path = Some(<<"/">>)]

\* delete as it would be without the check that the key exists
_deleteUnchecked(c, key, accept) ==
    LET keyExists == _get(c, key)
    IN  IF keyExists.kind = "throw" THEN NoWrite(keyExists, c)
        ELSE _set(c, key, <<>>, DeleteOptions, accept)

_delete(c, key, accept) ==
    LET keyExists == _get(c, key)
    IN  IF keyExists.kind = "throw" THEN NoWrite(keyExists, c)
        ELSE IF Not(keyExists) THEN NoWrite(Bool(FALSE), c)
        ELSE _set(c, key, <<>>, DeleteOptions, accept)

_update(c, key, value, options, accept) ==
    LET keyExists == _get(c, key)
    IN  IF keyExists.kind = "throw" THEN NoWrite(keyExists, c)
        ELSE IF Not(keyExists) THEN NoWrite(Bool(FALSE), c)
        ELSE _set(c, key, value, options, accept)

_keys(c) ==
    IF env = "undeclared" THEN ReferenceError
    ELSE IF env = "falsy" THEN Null
    ELSE IF Len(c) = 0 THEN Null
    ELSE LET cookies    == Split(c, ";")
             cookieKeys == [i \in 1..Len(cookies) |-> Trim(Split(cookies[i], "=")[1])]
         IN  IF Len(cookieKeys) = 0 THEN Null ELSE List(cookieKeys)

_values(c) ==
    IF env = "undeclared" THEN ReferenceError
    ELSE IF env = "falsy" THEN Null
    ELSE IF Len(c) = 0 THEN Null
    ELSE LET cookies == Split(c, ";")
         IN  IF \E i \in 1..Len(cookies) : Len(Split(cookies[i], "=")) < 2
             THEN TypeError
             ELSE LET cookieValues ==
                          [i \in 1..Len(cookies) |-> Trim(Split(cookies[i], "=")[2])]
                  IN  IF Len(cookieValues) = 0 THEN Null ELSE List(cookieValues)

(***************************************************************************)
(* Inputs.                                                                 *)
(***************************************************************************)
StringsUpTo(alphabet, n) == UNION {[1..k -> alphabet] : k \in 0..n}

KeySet == { <<"a">>, <<"b", "a">> }

\* values with and without a character that needs percent-encoding
ValueSet == { <<>>, <<"1">>, <<"=">> }

MaxAgeSet == {0 - 1, 0, MaxMaxAge}

\* the expiry date offered to server and to a set that only builds the string
SerializeDate == 951782400

SameSiteSet == { <<"L","a","x">>, <<"S","t","r","i","c","t">>, <<"N","o","n","e">> }

OptStr(set)  == {Unset(<<>>)} \cup {Some(v) : v \in set}
OptNum(set)  == {Unset(0)} \cup {Some(v) : v \in set}
OptBool      == {Unset(FALSE), Some(FALSE), Some(TRUE)}

\* every option object over the small value sets
OptionsAll ==
    {NoOptions} \cup
    [given : {TRUE}, domain : OptStr({<<"d", ".", "x">>}), expiry : OptNum({SerializeDate}),
     maxAge : OptNum({0, MaxMaxAge}), partitioned : OptBool, path : OptStr({<<"/">>}),
     sameSite : OptStr(SameSiteSet), secure : OptBool, httpOnly : OptBool]

\* the option objects offered to the calls that act on the jar
OptionSet ==
    {NoOptions}
    \cup {[EmptyOptions EXCEPT !.maxAge = Some(n)] : n \in MaxAgeSet}

\* the segments a jar snapshot is drawn from: plain cookies, a repeated name,
\* a value containing "=", an empty value and a segment without "="
SegSet ==
    { <<"a", "=", "1">>, <<"a", "=", "2">>, <<"b", "a", "=", "1">>,
      <<"a", "=", "1", "=", "2">>, <<"b", "a", "=">>, <<"b">> }

SnapshotSet == {Join(segs, Sep) : segs \in StringsUpTo(SegSet, MaxSegs)}

NoArgs == [key |-> <<>>, value |-> <<>>, options |-> NoOptions]

(***************************************************************************)
(* The record of the last call: its arguments, its result, whether it      *)
(* assigned document.cookie, the string it assigned, whether the jar       *)
(* applied the assignment, and the jar string before and after the call.   *)
(***************************************************************************)
Call(name, key, value, options, o, accept, before) ==
    [name |-> name, key |-> key, value |-> value, options |-> options,
     ret |-> o.ret, wrote |-> o.wrote, written |-> o.written,
     applied |-> o.wrote /\ accept, before |-> before, after |-> o.cookie]

NoCall == Call("none", <<>>, <<>>, NoOptions, NoWrite(Null, <<>>), FALSE, <<>>)

Set(key, value, options, accept) ==
    \E o \in {_set(cookie, key, value, options, accept)} :
        /\ o.wrote \/ accept
        /\ cookie' = o.cookie
        /\ op' = Call("set", key, value, options, o, accept, cookie)
        /\ UNCHANGED <<env, args>>

Get(key) ==
    /\ op' = Call("get", key, <<>>, NoOptions, NoWrite(_get(cookie, key), cookie), FALSE, cookie)
    /\ UNCHANGED <<env, cookie, args>>

Delete(key, accept) ==
    \E o \in {_delete(cookie, key, accept)} :
        /\ o.wrote \/ accept
        /\ cookie' = o.cookie
        /\ op' = Call("delete", key, <<>>, NoOptions, o, accept, cookie)
        /\ UNCHANGED <<env, args>>

Update(key, value, options, accept) ==
    \E o \in {_update(cookie, key, value, options, accept)} :
        /\ o.wrote \/ accept
        /\ cookie' = o.cookie
        /\ op' = Call("update", key, value, options, o, accept, cookie)
        /\ UNCHANGED <<env, args>>

Keys ==
    /\ op' = Call("keys", <<>>, <<>>, NoOptions, NoWrite(_keys(cookie), cookie), FALSE, cookie)
    /\ UNCHANGED <<env, cookie, args>>

Values ==
    /\ op' = Call("values", <<>>, <<>>, NoOptions, NoWrite(_values(cookie), cookie), FALSE, cookie)
    /\ UNCHANGED <<env, cookie, args>>

Server(key, value, options) ==
    /\ op' = Call("server", key, value, options,
                  NoWrite(Str(_server(key, value, options)), cookie), FALSE, cookie)
    /\ UNCHANGED <<env, cookie, args>>

(***************************************************************************)
(* Spec: a page (or a server runtime) calling the helpers in any order on  *)
(* a jar that starts empty.                                                *)
(***************************************************************************)
Init ==
    /\ env \in Envs
    /\ cookie = <<>>
    /\ args = NoArgs
    /\ op = NoCall

Next ==
    \/ \E k \in KeySet, v \in ValueSet, o \in OptionSet, a \in BOOLEAN : Set(k, v, o, a)
    \/ \E k \in KeySet : Get(k)
    \/ \E k \in KeySet, a \in BOOLEAN : Delete(k, a)
    \/ \E k \in KeySet, v \in ValueSet, o \in OptionSet, a \in BOOLEAN : Update(k, v, o, a)
    \/ Keys
    \/ Values

Spec == Init /\ [][Next]_vars

(***************************************************************************)
(* SpecSerialize: the two string builders applied to every key, value and  *)
(* option object.                                                          *)
(***************************************************************************)
InitSerialize ==
    /\ env = "document"
    /\ cookie = <<>>
    /\ args \in [key : KeySet, value : ValueSet, options : OptionsAll]
    /\ op = NoCall

NextSerialize ==
    \/ \E a \in BOOLEAN : Set(args.key, args.value, args.options, a)
    \/ Server(args.key, args.value, args.options)

SpecSerialize == InitSerialize /\ [][NextSerialize]_vars

(***************************************************************************)
(* SpecParse: get, keys and values applied to every jar snapshot.          *)
(***************************************************************************)
InitParse ==
    /\ env = "document"
    /\ cookie \in SnapshotSet
    /\ args \in [key : KeySet, value : {<<>>}, options : {NoOptions}]
    /\ op = NoCall

NextParse ==
    \/ Get(args.key)
    \/ Keys
    \/ Values

SpecParse == InitParse /\ [][NextParse]_vars

(***************************************************************************)
(* SpecFaithful: as Spec, with a jar that applies every write.             *)
(***************************************************************************)
NextFaithful ==
    \/ \E k \in KeySet, v \in ValueSet, o \in OptionSet : Set(k, v, o, TRUE)
    \/ \E k \in KeySet : Get(k)
    \/ \E k \in KeySet : Delete(k, TRUE)
    \/ \E k \in KeySet, v \in ValueSet, o \in OptionSet : Update(k, v, o, TRUE)
    \/ Keys
    \/ Values

SpecFaithful == Init /\ [][NextFaithful]_vars

(***************************************************************************)
(* Vocabulary of the properties.                                           *)
(***************************************************************************)
\* a cookie named name is in the jar whose string is c
HasCookie(c, name) == \E i \in 1..Len(JarOf(c)) : JarOf(c)[i].name = name

\* the jar whose string is c holds the cookie name=value
HoldsCookie(c, name, value) ==
    \E i \in 1..Len(JarOf(c)) : JarOf(c)[i] = [name |-> name, value |-> value]

\* the last call built a cookie string, and the string it built
BuiltString == op.name = "server" \/ (op.name = "set" /\ op.wrote)
Built == IF op.name = "server" THEN op.ret.s ELSE op.written

\* text before and after the first "=" of a segment (all of it when there is none)
BeforeEq(seg) ==
    LET i == IndexFrom(seg, Eq, 1) IN IF i = 0 THEN seg ELSE SubSeq(seg, 1, i - 1)
AfterEq(seg) ==
    LET i == IndexFrom(seg, Eq, 1) IN IF i = 0 THEN <<>> ELSE SubSeq(seg, i + 1, Len(seg))

AttrOrder ==
    <<AttrDomain, AttrExpires, AttrMaxAge, AttrPartitioned, AttrPath, AttrSameSite,
      AttrSecure, AttrHttpOnly>>

\* position of an attribute name in the fixed order, 0 for an unknown name
AttrIndex(name) ==
    IF \E i \in 1..Len(AttrOrder) : AttrOrder[i] = name
    THEN CHOOSE i \in 1..Len(AttrOrder) : AttrOrder[i] = name
    ELSE 0

\* the attribute segments of a built string, trimmed
AttrSegs(str) ==
    LET segs == Split(str, ";") IN [i \in 1..(Len(segs) - 1) |-> Trim(segs[i + 1])]

\* the flag is emitted as a bare name exactly when the option is true, and is
\* never emitted with a value
FlagRule(str, name, f, given) ==
    LET a == AttrSegs(str)
    IN  /\ (\E i \in 1..Len(a) : a[i] = name) <=> (given /\ f.has /\ f.v = TRUE)
        /\ \A i \in 1..Len(a) : BeforeEq(a[i]) = name => a[i] = name

(***************************************************************************)
(* C1: a cookie string built with maxAge 0 (by server, or written by set)  *)
(* contains "; Max-Age=0".                                                 *)
(***************************************************************************)
C1_MaxAgeZeroEmitted ==
    (BuiltString /\ op.options.given /\ op.options.maxAge = Some(0))
        => Includes(Built, Sep \o AttrMaxAge \o Eq \o <<"0">>)

(***************************************************************************)
(* C2: whenever delete(key) returns true, the key is no longer in the jar: *)
(* get(key) is null and keys() does not list key.                          *)
(***************************************************************************)
C2_DeleteTrueRemoves ==
    (op.name = "delete" /\ op.ret = Bool(TRUE))
        => /\ _get(cookie, op.key) = Null
           /\ LET ks == _keys(cookie)
              IN  ks = Null \/ (ks.kind = "array" /\ \A i \in 1..Len(ks.l) : ks.l[i] # op.key)

(***************************************************************************)
(* C3: after set(k, v) returns true, get(k) returns the value stored for k *)
(* (v percent-encoded), wherever k's cookie stands in the jar string.      *)
(***************************************************************************)
C3_SetThenGet ==
    (op.name = "set" /\ op.ret = Bool(TRUE))
        => _get(cookie, op.key) = Str(encodeURIComponent(op.value))

(***************************************************************************)
(* C4: update returns false without writing exactly when no cookie named   *)
(* key is in the jar; otherwise it performs set's write and returns set's  *)
(* result.                                                                 *)
(***************************************************************************)
C4_UpdateIffPresent ==
    (op.name = "update" /\ env = "document")
        => IF HasCookie(op.before, op.key)
           THEN /\ op.wrote
                /\ op.written = _setCookieValue(op.key, op.value, op.options)
                /\ op.ret = Bool(Includes(op.after, op.key \o Eq \o encodeURIComponent(op.value)))
           ELSE op.ret = Bool(FALSE) /\ ~op.wrote /\ op.after = op.before

(***************************************************************************)
(* C5: with no document global, set, delete and update return false, get,  *)
(* keys and values return null, and none of them throws.                   *)
(***************************************************************************)
C5_NoThrowWithoutDocument ==
    env = "undeclared"
        => /\ op.name \in {"set", "delete", "update"} => op.ret = Bool(FALSE)
           /\ op.name \in {"get", "keys", "values"} => op.ret = Null

(***************************************************************************)
(* C6: when no cookie named key is in the jar, delete(key) returns false   *)
(* and writes nothing: the jar string is the same before and after.        *)
(***************************************************************************)
C6_DeleteMissingNoWrite ==
    (op.name = "delete" /\ env = "document" /\ ~HasCookie(op.before, op.key))
        => op.ret = Bool(FALSE) /\ ~op.wrote /\ op.after = op.before /\ cookie = op.before

C6_Witness ==
    /\ op.name = "delete" /\ env = "document"
    /\ op.before # <<>> /\ ~HasCookie(op.before, op.key)
    /\ op.ret = Bool(FALSE)

(***************************************************************************)
(* C7: a built cookie string starts with key=encodeURIComponent(value);    *)
(* its attributes appear at most once, in the order Domain, Expires,       *)
(* Max-Age, Partitioned, Path, SameSite, Secure, HttpOnly; Partitioned,    *)
(* Secure and HttpOnly are bare names emitted exactly when their option is *)
(* true.                                                                   *)
(***************************************************************************)
C7_AttributeOrderAndFlags ==
    BuiltString =>
        LET segs == Split(Built, ";")
            a    == AttrSegs(Built)
            o    == op.options
        IN  /\ segs[1] = op.key \o Eq \o encodeURIComponent(op.value)
            /\ \A i \in 1..Len(a) : AttrIndex(BeforeEq(a[i])) # 0
            /\ \A i \in 1..Len(a), j \in 1..Len(a) :
                   i < j => AttrIndex(BeforeEq(a[i])) < AttrIndex(BeforeEq(a[j]))
            /\ FlagRule(Built, AttrPartitioned, o.partitioned, o.given)
            /\ FlagRule(Built, AttrSecure, o.secure, o.given)
            /\ FlagRule(Built, AttrHttpOnly, o.httpOnly, o.given)

C7_Witness ==
    /\ op.name = "set" /\ op.wrote
    /\ op.options.domain.has /\ op.options.path.has /\ op.options.sameSite.has
    /\ op.options.secure = Some(TRUE)
    /\ op.options.httpOnly = Some(FALSE)
    /\ op.options.partitioned = Some(TRUE)
    /\ Len(AttrSegs(op.written)) >= 5

(***************************************************************************)
(* C8: get(key) returns the remainder of the first segment whose trimmed   *)
(* text starts with `key=`, the prefix stripped from the trimmed segment,  *)
(* and null when no segment matches.                                       *)
(***************************************************************************)
C8_GetFirstTrimmed ==
    (op.name = "get" /\ env = "document")
        => LET segs    == Split(op.before, ";")
               prefix  == op.key \o Eq
               matches == {i \in 1..Len(segs) : StartsWith(Trim(segs[i]), prefix)}
           IN  IF matches = {} THEN op.ret = Null
               ELSE LET first == CHOOSE i \in matches : \A j \in matches : i <= j
                        t     == Trim(segs[first])
                    IN  op.ret = Str(SubSeq(t, Len(prefix) + 1, Len(t)))

(***************************************************************************)
(* C9: on a non-empty snapshot whose segments all contain "=", keys() and  *)
(* values() have one entry per segment: the trimmed text before the first  *)
(* "=" and the whole text after that first "=".                            *)
(***************************************************************************)
C9_KeysValuesSplitOnce ==
    LET segs == Split(op.before, ";")
    IN  (/\ op.name \in {"keys", "values"} /\ env = "document"
         /\ op.before # <<>>
         /\ \A i \in 1..Len(segs) : Includes(segs[i], Eq))
            => /\ op.ret.kind = "array"
               /\ Len(op.ret.l) = Len(segs)
               /\ \A i \in 1..Len(segs) :
                      op.ret.l[i] = IF op.name = "keys" THEN Trim(BeforeEq(segs[i]))
                                    ELSE AfterEq(segs[i])

(***************************************************************************)
(* C10: set returns true iff after its write the jar holds a cookie whose  *)
(* name is key and whose value is encodeURIComponent(value).               *)
(***************************************************************************)
C10_SetTrueIffStored ==
    (op.name = "set" /\ env = "document")
        => (op.ret = Bool(TRUE)
               <=> HoldsCookie(op.after, op.key, encodeURIComponent(op.value)))

====
